---- MODULE Spec2Model ----
(***************************************************************************)
(* functionsConnectorHandler (core/services/functions/connector_handler.go) *)
(* as a state machine: every HandleGatewayMessage invocation is a process   *)
(* that walks through its collaborator calls (allowlist.Allow, storage.List *)
(* or storage.Put, Message.Sign, connector.SendToGateway), and Start/Close  *)
(* are processes that go through utils.StartStopOnce.                       *)
(***************************************************************************)
EXTENDS Integers, Sequences, FiniteSets, TLC

(***************************************************************************)
(* Bounds of the model.                                                     *)
(***************************************************************************)
\* longest snapshot storage.List returns
MaxRows == 2
\* hex digits of an address (go-ethereum: 40), scaled down
AddressNibbles == 4
\* Start and Close calls made on the handler in one run
MaxLifecycleCalls == 3

\* concurrent invocations of HandleGatewayMessage
Reqs == {"r1", "r2"}
\* goroutines that call Start or Close
Callers == {"c1", "c2"}

(***************************************************************************)
(* Constants of the program and the values the collaborators deal in.       *)
(***************************************************************************)
methodSecretsSet == "secrets_set"
methodSecretsList == "secrets_list"
\* body.Method of an inbound message: the two known methods and another one
Methods == {methodSecretsList, methodSecretsSet, "secrets_get"}

Nil == "nil"
\* the configuration NewFunctionsConnectorHandler stores
NodeAddress == "0xNODE"
SignerKey == "nodeKey"
TheConnector == "gatewayConnector"

\* the gateway an invocation's message arrives on and the message's correlation
\* ids: opaque values the handler only copies, one set of them per invocation
Envelope(r) ==
    IF r = "r1" THEN [gatewayId |-> "gw1", MessageId |-> "m1", DonId |-> "don1"]
    ELSE [gatewayId |-> "gw2", MessageId |-> "m2", DonId |-> "don2"]

\* body.Sender as the hex string of the wire format, character by character
Senders ==
    { <<"0", "x", "A", "1">>, <<"b", "2">> }

\* JSON values of a request payload
Num(n) == <<"num", n>>
Str(s) == <<"str", s>>

\* body.Payload: no bytes at all, or the bytes of a JSON object
EmptyBytes == <<>>
PayloadFull ==
    <<"object", [slot_id |-> Num(3), version |-> Num(1), expiration |-> Num(100),
                 payload |-> Str("P"), signature |-> Str("S")]>>
PayloadBadType ==
    <<"object", [slot_id |-> Str("3"), version |-> Num(1), expiration |-> Num(100),
                 payload |-> Str("P"), signature |-> Str("S")]>>
Payloads == {EmptyBytes, PayloadFull, PayloadBadType}
\* a later version of the slot PayloadFull writes
PayloadNewer ==
    <<"object", [slot_id |-> Num(3), version |-> Num(2), expiration |-> Num(200),
                 payload |-> Str("Q"), signature |-> Str("T")]>>

\* rows the storage backend may hold for an address
RowPool ==
    { [SlotId |-> 1, Version |-> 2, Expiration |-> 100, Payload |-> "P1"],
      [SlotId |-> 2, Version |-> 1, Expiration |-> 200, Payload |-> "P2"] }

\* the sequences of at most n different elements of S
RECURSIVE SeqsUpTo(_, _)
SeqsUpTo(S, n) ==
    IF n = 0 THEN { <<>> }
    ELSE LET shorter == SeqsUpTo(S, n - 1)
             fresh(s) == { x \in S : \A i \in 1..Len(s) : s[i] # x }
         IN  shorter \cup UNION { { Append(s, x) : x \in fresh(s) } : s \in shorter }

\* the snapshots storage.List may return: rows of different keys, in any order
Snapshots == SeqsUpTo(RowPool, MaxRows)

\* the errors of the collaborators ("" is Go's nil error)
NoError == ""
ErrCtxCanceled == "context canceled"
ListErrors == {"s4: backend unavailable"}
PutErrors == {"s4: version too low"}
ErrSign == "sign failed"
ErrTransport == "transport closed"

(***************************************************************************)
(* ethCommon.HexToAddress: drop a 0x prefix, read the hex digits in either  *)
(* case, and fit them to the address width from the right (left-padded with *)
(* zeroes, or cropped from the left).                                       *)
(***************************************************************************)
has0xPrefix(s) ==
    Len(s) >= 2 /\ s[1] = "0" /\ (s[2] = "x" \/ s[2] = "X")

HexVal(c) ==
    CASE c = "0" -> 0 [] c = "1" -> 1 [] c = "2" -> 2 [] c = "3" -> 3
      [] c = "a" -> 10 [] c = "A" -> 10 [] c = "b" -> 11 [] c = "B" -> 11
      [] OTHER -> 0

HexToAddress(s) ==
    LET digits == IF has0xPrefix(s) THEN SubSeq(s, 3, Len(s)) ELSE s
        n == Len(digits)
    IN  [i \in 1..AddressNibbles |->
            IF i + n - AddressNibbles >= 1
            THEN HexVal(digits[i + n - AddressNibbles])
            ELSE 0]

(***************************************************************************)
(* json.Unmarshal(body.Payload, &request) for SetRequest: the bytes must be *)
(* a JSON object; a field of the object that SetRequest has must have the   *)
(* field's type (slot_id and version unsigned); unknown fields are ignored  *)
(* and missing ones keep Go's zero value.                                   *)
(***************************************************************************)
IsNum(v) == v[1] = "num"
IsStr(v) == v[1] = "str"

FieldOk(obj, f) ==
    \/ f \notin DOMAIN obj
    \/ CASE f = "slot_id" -> IsNum(obj[f]) /\ obj[f][2] >= 0
         [] f = "version" -> IsNum(obj[f]) /\ obj[f][2] >= 0
         [] f = "expiration" -> IsNum(obj[f])
         [] OTHER -> IsStr(obj[f])

NumField(obj, f) == IF f \in DOMAIN obj THEN obj[f][2] ELSE 0
BytesField(obj, f) == IF f \in DOMAIN obj THEN obj[f][2] ELSE ""

SetRequestFields == {"slot_id", "version", "expiration", "payload", "signature"}

ZeroSetRequest ==
    [SlotID |-> 0, Version |-> 0, Expiration |-> 0, Payload |-> "", Signature |-> ""]

Unmarshal(bytes) ==
    IF Len(bytes) = 0
    THEN [err |-> "unexpected end of JSON input", request |-> ZeroSetRequest]
    ELSE LET obj == bytes[2]
         IN  IF \A f \in SetRequestFields : FieldOk(obj, f)
             THEN [err |-> NoError,
                   request |-> [SlotID |-> NumField(obj, "slot_id"),
                                Version |-> NumField(obj, "version"),
                                Expiration |-> NumField(obj, "expiration"),
                                Payload |-> BytesField(obj, "payload"),
                                Signature |-> BytesField(obj, "signature")]]
             ELSE [err |-> "json: cannot unmarshal into Go struct field",
                   request |-> ZeroSetRequest]

(***************************************************************************)
(* json.Marshal of a ListResponse or a SetResponse: success always, and     *)
(* error_message and rows only when not empty (omitempty).                  *)
(***************************************************************************)
MarshalRow(row) ==
    [slot_id |-> row.SlotID, version |-> row.Version, expiration |-> row.Expiration]

Marshal(p) ==
    LET hasErr == p.ErrorMessage # ""
        hasRows == IF "Rows" \in DOMAIN p THEN Len(p.Rows) > 0 ELSE FALSE
        rows == [i \in 1..Len(p.Rows) |-> MarshalRow(p.Rows[i])]
    IN  <<"object",
          CASE ~hasErr /\ ~hasRows -> [success |-> p.Success]
            [] hasErr /\ ~hasRows ->
                 [success |-> p.Success, error_message |-> p.ErrorMessage]
            [] ~hasErr /\ hasRows -> [success |-> p.Success, rows |-> rows]
            [] OTHER ->
                 [success |-> p.Success, error_message |-> p.ErrorMessage,
                  rows |-> rows]>>

(***************************************************************************)
(* Message.Sign(h.signerKey) and its verification: the signature binds the  *)
(* signer's key to the body it was made over.                               *)
(***************************************************************************)
SignMessage(key, body) == [signer |-> key, over |-> body]

VerifySignature(msg, key) ==
    msg.Signature.signer = key /\ msg.Signature.over = msg.Body

(***************************************************************************)
(* The state.                                                               *)
(***************************************************************************)
VARIABLES
    h,              \* the handler's fields: connector, signerKey, nodeAddress, storage, allowlist
    state,          \* the StartStopOnce state embedded in the handler
    mu,             \* the StartStopOnce lock: its holder, or Nil
    lpc,            \* where each Start/Close caller is
    allowlistLog,   \* the lifecycle calls the allowlist has received, in order
    lifecycleCalls, \* Start and Close calls made so far
    lifecycleLog,   \* the Start and Close calls that have returned, with their result
    pc,             \* where each HandleGatewayMessage invocation is
    req,            \* its arguments: gatewayId and msg.Body
    ctx,            \* its context: cancelled or not, and where it was when cancelled
    response,       \* the ListResponse or SetResponse it has built
    calls,          \* the collaborator calls it has made, in order
    lggr,           \* the lines it has logged, in order
    storageWrites   \* the Put calls the storage backend has received, in order

lifecycleVars == <<state, mu, lpc, allowlistLog, lifecycleCalls, lifecycleLog>>
handlingVars == <<pc, req, ctx, response, calls, lggr, storageWrites>>
vars == <<h, state, mu, lpc, allowlistLog, lifecycleCalls, lifecycleLog,
          pc, req, ctx, response, calls, lggr, storageWrites>>

NoBody == [MessageId |-> "", DonId |-> "", Method |-> "", Sender |-> <<>>,
           Payload |-> EmptyBytes]
NoRequest == [gatewayId |-> "", body |-> NoBody]
NoResponse == [Success |-> FALSE, ErrorMessage |-> ""]
LiveCtx == [canceled |-> FALSE, during |-> "none"]

\* NewFunctionsConnectorHandler: the fields it sets; connector stays nil
NewFunctionsConnectorHandler ==
    [connector |-> Nil, signerKey |-> SignerKey, nodeAddress |-> NodeAddress,
     storage |-> "s4Storage", allowlist |-> "onchainAllowlist"]

\* a collaborator call as the handler makes it, and as it returns
Call(op, args) ==
    [op |-> op, args |-> args, returned |-> FALSE, err |-> NoError, val |-> <<>>]
Returned(call, err, val) ==
    [call EXCEPT !.returned = TRUE, !.err = err, !.val = val]
ReturnLast(cs, err, val) ==
    [cs EXCEPT ![Len(cs)] = Returned(cs[Len(cs)], err, val)]

\* fromAddr kept in one place shared by all invocations: that of the first
fromAddr_Shared(r) == HexToAddress(req["r1"].body.Sender)

fromAddr(r) == HexToAddress(req[r].body.Sender)

(***************************************************************************)
(* HandleGatewayMessage                                                     *)
(***************************************************************************)
\* the gateway connector delivers msg on gatewayId with context ctx; it is the
\* connector given to SetConnector that delivers, so h.connector is set by then
ReceiveFrom(r, methods, senders, payloads) ==
    /\ pc[r] = "idle"
    /\ h.connector # Nil
    /\ \E m \in methods, s \in senders, p \in payloads :
         req' = [req EXCEPT ![r] =
                    [gatewayId |-> Envelope(r).gatewayId,
                     body |-> [MessageId |-> Envelope(r).MessageId,
                               DonId |-> Envelope(r).DonId,
                               Method |-> m, Sender |-> s, Payload |-> p]]]
    /\ pc' = [pc EXCEPT ![r] = "admit"]
    /\ UNCHANGED <<h, lifecycleVars, ctx, response, calls, lggr, storageWrites>>

Receive(r) == ReceiveFrom(r, Methods, Senders, Payloads)

\* a secrets_set message that decodes arrives: a first or a later version of a slot
ReceiveWrite(r) == ReceiveFrom(r, {methodSecretsSet}, Senders, {PayloadFull, PayloadNewer})

\* the caller cancels ctx while the invocation awaits the storage backend, the
\* one collaborator whose answer the handler turns into a response
CancelCtx(r) ==
    /\ pc[r] \in {"listWait", "putWait"}
    /\ ~ctx[r].canceled
    /\ ctx' = [ctx EXCEPT ![r] = [canceled |-> TRUE, during |-> pc[r]]]
    /\ UNCHANGED <<h, lifecycleVars, pc, req, response, calls, lggr, storageWrites>>

\* Rejected turning away every message while the handler is not started
Rejected_UnlessStarted(allowed) == ~allowed \/ state # "Started"

\* Rejected with the allowlist's answer ignored
Rejected_Never(allowed) == FALSE

\* if !h.allowlist.Allow(fromAddr) { log; return }
Rejected(allowed) == ~allowed

\* Dispatch with the default branch falling into the list routine
Dispatch_DefaultLists(method) ==
    CASE method = methodSecretsSet -> "set"
      [] OTHER -> "list"

\* Dispatch with secrets_set left out of the switch
Dispatch_NoSet(method) ==
    CASE method = methodSecretsList -> "list"
      [] OTHER -> "done"

\* Dispatch with a default branch that panics instead of logging
Dispatch_DefaultPanics(method) ==
    CASE method = methodSecretsList -> "list"
      [] method = methodSecretsSet -> "set"
      [] OTHER -> "panic"

\* switch body.Method: the routine that handles it
Dispatch(method) ==
    CASE method = methodSecretsList -> "list"
      [] method = methodSecretsSet -> "set"
      [] OTHER -> "done"

Admit(r) ==
    /\ pc[r] = "admit"
    /\ \E allowed \in BOOLEAN :
         LET call == Returned(Call("Allow", <<fromAddr(r)>>), NoError, allowed)
             next == Dispatch(req[r].body.Method)
         IN  /\ calls' = [calls EXCEPT ![r] = Append(@, call)]
             /\ IF Rejected(allowed)
                THEN /\ lggr' = [lggr EXCEPT ![r] =
                            Append(@, "allowlist prevented the request from this address")]
                     /\ pc' = [pc EXCEPT ![r] = "done"]
                ELSE /\ lggr' = [lggr EXCEPT ![r] =
                            IF next = "done"
                            THEN @ \o <<"handling gateway request", "unsupported method">>
                            ELSE Append(@, "handling gateway request")]
                     /\ pc' = [pc EXCEPT ![r] = next]
    /\ UNCHANGED <<h, lifecycleVars, req, ctx, response, storageWrites>>

(***************************************************************************)
(* handleSecretsList                                                        *)
(***************************************************************************)
\* ListRowOf with slot id and version taken from each other's field
ListRowOf_Swapped(row) ==
    [SlotID |-> row.Version, Version |-> row.SlotId, Expiration |-> row.Expiration]

ListRowOf(row) ==
    [SlotID |-> row.SlotId, Version |-> row.Version, Expiration |-> row.Expiration]

\* ListResponseOf with the backend's error left out of the message
ListResponseOf_ErrDropped(snapshot, err) ==
    IF err = NoError
    THEN [Success |-> TRUE, ErrorMessage |-> "",
          Rows |-> [i \in 1..Len(snapshot) |-> ListRowOf(snapshot[i])]]
    ELSE [Success |-> FALSE, ErrorMessage |-> "Failed to list secrets", Rows |-> <<>>]

ListResponseOf(snapshot, err) ==
    IF err = NoError
    THEN [Success |-> TRUE, ErrorMessage |-> "",
          Rows |-> [i \in 1..Len(snapshot) |-> ListRowOf(snapshot[i])]]
    ELSE [Success |-> FALSE, ErrorMessage |-> "Failed to list secrets: " \o err,
          Rows |-> <<>>]

\* ListCall going on to the response without List's answer
ListCall_NoWait(r) ==
    /\ pc[r] = "list"
    /\ calls' = [calls EXCEPT ![r] = Append(@, Call("List", <<fromAddr(r)>>))]
    /\ pc' = [pc EXCEPT ![r] = "send"]
    /\ UNCHANGED <<h, lifecycleVars, req, ctx, response, lggr, storageWrites>>

\* ListCall keeping the message it serves in a field of the handler
ListCall_RemembersMessage(r) ==
    /\ pc[r] = "list"
    /\ calls' = [calls EXCEPT ![r] = Append(@, Call("List", <<fromAddr(r)>>))]
    /\ pc' = [pc EXCEPT ![r] = "listWait"]
    /\ h' = [h EXCEPT !.nodeAddress = req[r].body.MessageId]
    /\ UNCHANGED <<lifecycleVars, req, ctx, response, lggr, storageWrites>>

\* snapshot, err := h.storage.List(ctx, fromAddr): the call is made
ListCall(r) ==
    /\ pc[r] = "list"
    /\ calls' = [calls EXCEPT ![r] = Append(@, Call("List", <<fromAddr(r)>>))]
    /\ pc' = [pc EXCEPT ![r] = "listWait"]
    /\ UNCHANGED <<h, lifecycleVars, req, ctx, response, lggr, storageWrites>>

\* what the storage backend may answer under this context
StorageErrors(errs, c) == errs \cup (IF c.canceled THEN {ErrCtxCanceled} ELSE {})

\* ListReturn refusing a request whose payload does not decode
ListReturn_DecodesPayload(r) ==
    /\ pc[r] = "listWait"
    /\ LET bad == Unmarshal(req[r].body.Payload).err
           refusal == [Success |-> FALSE,
                       ErrorMessage |-> "Bad request to list secrets: " \o bad,
                       Rows |-> <<>>]
       IN  \/ \E snapshot \in Snapshots :
                /\ calls' = [calls EXCEPT ![r] = ReturnLast(@, NoError, snapshot)]
                /\ response' = [response EXCEPT ![r] =
                       IF bad = NoError THEN ListResponseOf(snapshot, NoError)
                       ELSE refusal]
           \/ \E err \in StorageErrors(ListErrors, ctx[r]) :
                /\ calls' = [calls EXCEPT ![r] = ReturnLast(@, err, <<>>)]
                /\ response' = [response EXCEPT ![r] = ListResponseOf(<<>>, err)]
    /\ pc' = [pc EXCEPT ![r] = "send"]
    /\ UNCHANGED <<h, lifecycleVars, req, ctx, lggr, storageWrites>>

\* storage.List returns; the response is built
ListReturn(r) ==
    /\ pc[r] = "listWait"
    /\ \/ \E snapshot \in Snapshots :
            /\ calls' = [calls EXCEPT ![r] = ReturnLast(@, NoError, snapshot)]
            /\ response' = [response EXCEPT ![r] = ListResponseOf(snapshot, NoError)]
       \/ \E err \in StorageErrors(ListErrors, ctx[r]) :
            /\ calls' = [calls EXCEPT ![r] = ReturnLast(@, err, <<>>)]
            /\ response' = [response EXCEPT ![r] = ListResponseOf(<<>>, err)]
    /\ pc' = [pc EXCEPT ![r] = "send"]
    /\ UNCHANGED <<h, lifecycleVars, req, ctx, lggr, storageWrites>>

(***************************************************************************)
(* handleSecretsSet                                                         *)
(***************************************************************************)
\* PutArgs with the record's payload passed where the signature belongs
PutArgs_PayloadAsSignature(addr, request) ==
    [key |-> [Address |-> addr, SlotId |-> request.SlotID, Version |-> request.Version],
     record |-> [Expiration |-> request.Expiration, Payload |-> request.Payload],
     signature |-> request.Payload]

\* the arguments of h.storage.Put(ctx, &key, &record, request.Signature)
PutArgs(addr, request) ==
    [key |-> [Address |-> addr, SlotId |-> request.SlotID, Version |-> request.Version],
     record |-> [Expiration |-> request.Expiration, Payload |-> request.Payload],
     signature |-> request.Signature]

\* SetResponseOf with the decode error lost: only Put's error is looked at
SetResponseOf_DecodeErrLost(decodeErr, putErr) ==
    IF putErr = NoError
    THEN [Success |-> TRUE, ErrorMessage |-> ""]
    ELSE [Success |-> FALSE, ErrorMessage |-> "Failed to set secret: " \o putErr]

SetResponseOf(decodeErr, putErr) ==
    IF decodeErr = NoError
    THEN IF putErr = NoError
         THEN [Success |-> TRUE, ErrorMessage |-> ""]
         ELSE [Success |-> FALSE, ErrorMessage |-> "Failed to set secret: " \o putErr]
    ELSE [Success |-> FALSE, ErrorMessage |-> "Bad request to set secret: " \o decodeErr]

\* SetDecode holding a write back while another write of the same owner is
\* outstanding
SetDecode_SerializedPerOwner(r) ==
    /\ pc[r] = "set"
    /\ \A o \in Reqs \ {r} : ~(pc[o] = "putWait" /\ fromAddr(o) = fromAddr(r))
    /\ LET d == Unmarshal(req[r].body.Payload)
           args == PutArgs(fromAddr(r), d.request)
       IN  IF d.err = NoError
           THEN /\ calls' = [calls EXCEPT ![r] = Append(@, Call("Put", <<args>>))]
                /\ storageWrites' = Append(storageWrites, [by |-> r, args |-> args])
                /\ pc' = [pc EXCEPT ![r] = "putWait"]
                /\ UNCHANGED response
           ELSE /\ response' = [response EXCEPT ![r] = SetResponseOf(d.err, NoError)]
                /\ pc' = [pc EXCEPT ![r] = "send"]
                /\ UNCHANGED <<calls, storageWrites>>
    /\ UNCHANGED <<h, lifecycleVars, req, ctx, lggr>>

\* err := json.Unmarshal(body.Payload, &request); on success the Put call is made
SetDecode(r) ==
    /\ pc[r] = "set"
    /\ LET d == Unmarshal(req[r].body.Payload)
           args == PutArgs(fromAddr(r), d.request)
       IN  IF d.err = NoError
           THEN /\ calls' = [calls EXCEPT ![r] = Append(@, Call("Put", <<args>>))]
                /\ storageWrites' = Append(storageWrites, [by |-> r, args |-> args])
                /\ pc' = [pc EXCEPT ![r] = "putWait"]
                /\ UNCHANGED response
           ELSE /\ response' = [response EXCEPT ![r] = SetResponseOf(d.err, NoError)]
                /\ pc' = [pc EXCEPT ![r] = "send"]
                /\ UNCHANGED <<calls, storageWrites>>
    /\ UNCHANGED <<h, lifecycleVars, req, ctx, lggr>>

\* storage.Put returns; the response is built
PutReturn(r) ==
    /\ pc[r] = "putWait"
    /\ \E err \in {NoError} \cup StorageErrors(PutErrors, ctx[r]) :
         /\ calls' = [calls EXCEPT ![r] = ReturnLast(@, err, <<>>)]
         /\ response' = [response EXCEPT ![r] = SetResponseOf(NoError, err)]
    /\ pc' = [pc EXCEPT ![r] = "send"]
    /\ UNCHANGED <<h, lifecycleVars, req, ctx, lggr, storageWrites>>

(***************************************************************************)
(* sendResponse                                                             *)
(***************************************************************************)
\* ResponseBody with the request's don id copied into the message id
ResponseBody_DonIdAsMessageId(requestBody, nodeAddress, payloadJson) ==
    [MessageId |-> requestBody.DonId, DonId |-> requestBody.DonId,
     Method |-> requestBody.Method, Sender |-> nodeAddress, Payload |-> payloadJson]

\* msg := &api.Message{Body: ...}
ResponseBody(requestBody, nodeAddress, payloadJson) ==
    [MessageId |-> requestBody.MessageId, DonId |-> requestBody.DonId,
     Method |-> requestBody.Method, Sender |-> nodeAddress, Payload |-> payloadJson]

\* SendResponseCalls returning after Sign when the context is cancelled
SendResponseCalls_AbandonsCanceled(c, gatewayId, body, key, connector, signErr, sendErr) ==
    IF signErr # NoError
    THEN << Returned(Call("Sign", <<key, body>>), signErr, <<>>) >>
    ELSE IF c.canceled
    THEN << Returned(Call("Sign", <<key, body>>), NoError, SignMessage(key, body)) >>
    ELSE << Returned(Call("Sign", <<key, body>>), NoError, SignMessage(key, body)),
            Returned(Call("SendToGateway",
                          <<connector, c.canceled, gatewayId,
                            [Body |-> body, Signature |-> SignMessage(key, body)]>>),
                     sendErr, <<>>) >>

\* SendResponseCalls addressing the response to the request's don id
SendResponseCalls_ToDonId(c, gatewayId, body, key, connector, signErr, sendErr) ==
    IF signErr # NoError
    THEN << Returned(Call("Sign", <<key, body>>), signErr, <<>>) >>
    ELSE << Returned(Call("Sign", <<key, body>>), NoError, SignMessage(key, body)),
            Returned(Call("SendToGateway",
                          <<connector, c.canceled, body.DonId,
                            [Body |-> body, Signature |-> SignMessage(key, body)]>>),
                     sendErr, <<>>) >>

\* SendResponseCalls with a failed SendToGateway tried once more
SendResponseCalls_Retries(c, gatewayId, body, key, connector, signErr, sendErr) ==
    LET send == Returned(Call("SendToGateway",
                              <<connector, c.canceled, gatewayId,
                                [Body |-> body, Signature |-> SignMessage(key, body)]>>),
                         sendErr, <<>>)
    IN  IF signErr # NoError
        THEN << Returned(Call("Sign", <<key, body>>), signErr, <<>>) >>
        ELSE IF sendErr # NoError
        THEN << Returned(Call("Sign", <<key, body>>), NoError, SignMessage(key, body)),
                send, send >>
        ELSE << Returned(Call("Sign", <<key, body>>), NoError, SignMessage(key, body)),
                send >>

\* the calls sendResponse makes: msg.Sign, then SendToGateway unless Sign failed
SendResponseCalls(c, gatewayId, body, key, connector, signErr, sendErr) ==
    IF signErr # NoError
    THEN << Returned(Call("Sign", <<key, body>>), signErr, <<>>) >>
    ELSE << Returned(Call("Sign", <<key, body>>), NoError, SignMessage(key, body)),
            Returned(Call("SendToGateway",
                          <<connector, c.canceled, gatewayId,
                            [Body |-> body, Signature |-> SignMessage(key, body)]>>),
                     sendErr, <<>>) >>

SendResponse(r) ==
    /\ pc[r] = "send"
    /\ \E signErr \in {NoError, ErrSign},
          sendErr \in {NoError} \cup StorageErrors({ErrTransport}, ctx[r]) :
         LET body == ResponseBody(req[r].body, h.nodeAddress, Marshal(response[r]))
             made == SendResponseCalls(ctx[r], req[r].gatewayId, body, h.signerKey,
                                       h.connector, signErr, sendErr)
             err == made[Len(made)].err
         IN  /\ signErr # NoError => sendErr = NoError
             /\ calls' = [calls EXCEPT ![r] = @ \o made]
             /\ lggr' = [lggr EXCEPT ![r] =
                    Append(@, IF err = NoError THEN "sent to gateway"
                              ELSE "failed to send response to gateway")]
    /\ pc' = [pc EXCEPT ![r] = "done"]
    /\ UNCHANGED <<h, lifecycleVars, req, ctx, response, storageWrites>>

\* SetConnector(connector)
SetConnector ==
    /\ h' = [h EXCEPT !.connector = TheConnector]
    /\ UNCHANGED <<lifecycleVars, handlingVars>>

(***************************************************************************)
(* utils.StartStopOnce: StartOnce moves Unstarted to Starting with one      *)
(* compare-and-swap, runs fn under the lock and ends in Started or          *)
(* StartFailed; StopOnce takes the lock, moves Started to Stopping, runs fn *)
(* and ends in Stopped or StopFailed. A call that loses its compare-and-    *)
(* swap returns an error without running fn.                                *)
(***************************************************************************)
StartOnceAdmits(st) == st = "Unstarted"
StopOnceAdmits(st) == st = "Started"

ErrAllowlist == "allowlist failed"
ErrAlreadyStarted == "has already been started once"
ErrCannotStop == "cannot be stopped from this state"

StartOnceBegin(c) ==
    /\ lpc[c] = "idle"
    /\ lifecycleCalls < MaxLifecycleCalls
    /\ lifecycleCalls' = lifecycleCalls + 1
    /\ IF StartOnceAdmits(state)
       THEN /\ state' = "Starting"
            /\ lpc' = [lpc EXCEPT ![c] = "startLock"]
            /\ UNCHANGED lifecycleLog
       ELSE /\ lifecycleLog' =
                 Append(lifecycleLog, [call |-> "Start", err |-> ErrAlreadyStarted])
            /\ UNCHANGED <<state, lpc>>
    /\ UNCHANGED <<mu, allowlistLog>>

StartOnceRun(c, fn) ==
    /\ lpc[c] = "startLock"
    /\ mu = Nil
    /\ mu' = c
    /\ allowlistLog' = Append(allowlistLog, fn)
    /\ lpc' = [lpc EXCEPT ![c] = "startFn"]
    /\ UNCHANGED <<state, lifecycleCalls, lifecycleLog>>

StartOnceEnd(c) ==
    /\ lpc[c] = "startFn"
    /\ \E err \in {NoError, ErrAllowlist} :
         /\ state' = IF err = NoError THEN "Started" ELSE "StartFailed"
         /\ lifecycleLog' = Append(lifecycleLog, [call |-> "Start", err |-> err])
    /\ mu' = Nil
    /\ lpc' = [lpc EXCEPT ![c] = "idle"]
    /\ UNCHANGED <<allowlistLog, lifecycleCalls>>

StopOnceBegin(c) ==
    /\ lpc[c] = "idle"
    /\ lifecycleCalls < MaxLifecycleCalls
    /\ lifecycleCalls' = lifecycleCalls + 1
    /\ lpc' = [lpc EXCEPT ![c] = "stopLock"]
    /\ UNCHANGED <<state, mu, allowlistLog, lifecycleLog>>

StopOnceRun(c, fn) ==
    /\ lpc[c] = "stopLock"
    /\ mu = Nil
    /\ IF StopOnceAdmits(state)
       THEN /\ state' = "Stopping"
            /\ mu' = c
            /\ allowlistLog' = Append(allowlistLog, fn)
            /\ lpc' = [lpc EXCEPT ![c] = "stopFn"]
            /\ UNCHANGED lifecycleLog
       ELSE /\ lifecycleLog' =
                 Append(lifecycleLog, [call |-> "Close", err |-> ErrCannotStop])
            /\ lpc' = [lpc EXCEPT ![c] = "idle"]
            /\ UNCHANGED <<state, mu, allowlistLog>>
    /\ UNCHANGED lifecycleCalls

StopOnceEnd(c) ==
    /\ lpc[c] = "stopFn"
    /\ \E err \in {NoError, ErrAllowlist} :
         /\ state' = IF err = NoError THEN "Stopped" ELSE "StopFailed"
         /\ lifecycleLog' = Append(lifecycleLog, [call |-> "Close", err |-> err])
    /\ mu' = Nil
    /\ lpc' = [lpc EXCEPT ![c] = "idle"]
    /\ UNCHANGED <<allowlistLog, lifecycleCalls>>

(***************************************************************************)
(* Start and Close                                                          *)
(***************************************************************************)
\* StartFn calling the allowlist's Close
StartFn_CallsClose == "Close"
\* the allowlist method Start's closure calls
StartFn == "Start"
\* CloseFn calling the allowlist's Start
CloseFn_CallsStart == "Start"
\* the allowlist method Close's closure calls
CloseFn == "Close"

\* h.StartOnce("FunctionsConnectorHandler", func() error { return h.allowlist.Start(ctx) })
Start(c) ==
    /\ \/ StartOnceBegin(c)
       \/ StartOnceRun(c, StartFn)
       \/ StartOnceEnd(c)
    /\ UNCHANGED <<h, handlingVars>>

\* h.StopOnce("FunctionsConnectorHandler", func() error { return h.allowlist.Close() })
Close(c) ==
    /\ \/ StopOnceBegin(c)
       \/ StopOnceRun(c, CloseFn)
       \/ StopOnceEnd(c)
    /\ UNCHANGED <<h, handlingVars>>

Init ==
    /\ h = NewFunctionsConnectorHandler
    /\ state = "Unstarted"
    /\ mu = Nil
    /\ lpc = [c \in Callers |-> "idle"]
    /\ allowlistLog = <<>>
    /\ lifecycleCalls = 0
    /\ lifecycleLog = <<>>
    /\ pc = [r \in Reqs |-> "idle"]
    /\ req = [r \in Reqs |-> NoRequest]
    /\ ctx = [r \in Reqs |-> LiveCtx]
    /\ response = [r \in Reqs |-> NoResponse]
    /\ calls = [r \in Reqs |-> <<>>]
    /\ lggr = [r \in Reqs |-> <<>>]
    /\ storageWrites = <<>>

HandleGatewayMessage(r) ==
    \/ Admit(r)
    \/ ListCall(r)
    \/ ListReturn(r)
    \/ SetDecode(r)
    \/ PutReturn(r)
    \/ SendResponse(r)

NextHandling ==
    \/ SetConnector
    \/ \E r \in Reqs : Receive(r)
    \/ \E r \in Reqs : CancelCtx(r)
    \/ \E r \in Reqs : HandleGatewayMessage(r)

SpecHandling == Init /\ [][NextHandling]_vars

NextLifecycle ==
    \/ \E c \in Callers : Start(c)
    \/ \E c \in Callers : Close(c)

SpecLifecycle == Init /\ [][NextLifecycle]_vars

Next ==
    \/ NextHandling
    \/ NextLifecycle

Spec == Init /\ [][Next]_vars

\* two invocations that write secrets
NextTwoWrites ==
    \/ SetConnector
    \/ \E r \in Reqs : ReceiveWrite(r)
    \/ \E r \in Reqs : CancelCtx(r)
    \/ \E r \in Reqs : Admit(r)
    \/ \E r \in Reqs : SetDecode(r)
    \/ \E r \in Reqs : PutReturn(r)
    \/ \E r \in Reqs : SendResponse(r)

SpecTwoWrites == Init /\ [][NextTwoWrites]_vars

\* one invocation on its own: the goroutine that runs it keeps running, and
\* every collaborator call it makes returns
NextOneMessage ==
    \/ SetConnector
    \/ Receive("r1")
    \/ CancelCtx("r1")
    \/ HandleGatewayMessage("r1")

FairSpecOneMessage ==
    Init /\ [][NextOneMessage]_vars /\ WF_vars(HandleGatewayMessage("r1"))

\* one invocation while Start and Close are called
NextOneMessageWithLifecycle ==
    \/ NextOneMessage
    \/ NextLifecycle

SpecOneMessageWithLifecycle == Init /\ [][NextOneMessageWithLifecycle]_vars

(***************************************************************************)
(* What an invocation has done so far, read off its calls.                  *)
(***************************************************************************)
CallsOf(r, op) == SelectSeq(calls[r], LAMBDA c : c.op = op)
NumCalls(r, op) == Len(CallsOf(r, op))

Consulted(r) == Len(calls[r]) >= 1 /\ calls[r][1].op = "Allow"
Allowed(r) == Consulted(r) /\ calls[r][1].val
Denied(r) == Consulted(r) /\ ~calls[r][1].val

KnownMethod(r) == req[r].body.Method \in {methodSecretsList, methodSecretsSet}

NoStorageCall(r) ==
    /\ NumCalls(r, "List") = 0
    /\ NumCalls(r, "Put") = 0
    /\ \A i \in 1..Len(storageWrites) : storageWrites[i].by # r

\* the outbound messages the invocation has handed to SendToGateway
Sent(r) ==
    LET sends == CallsOf(r, "SendToGateway")
    IN  [i \in 1..Len(sends) |-> sends[i].args[4]]
\* the JSON object an outbound message carries
JsonOf(msg) == msg.Body.Payload[2]
RowsOf(json) == IF "rows" \in DOMAIN json THEN json.rows ELSE <<>>

SignFailed(r) ==
    \E i \in 1..Len(calls[r]) : calls[r][i].op = "Sign" /\ calls[r][i].err # NoError

\* the storage call of the invocation, once it has returned
StorageReturned(r, op) ==
    NumCalls(r, op) = 1 /\ CallsOf(r, op)[1].returned

(***************************************************************************)
(* C1: a message whose sender the allowlist rejects causes no SendToGateway *)
(* call and no storage call, whatever its method and payload; handling ends *)
(* right there.                                                             *)
(***************************************************************************)
C1_RejectedSilent ==
    \A r \in Reqs :
        Denied(r) =>
            /\ pc[r] = "done"
            /\ NumCalls(r, "SendToGateway") = 0
            /\ NumCalls(r, "Sign") = 0
            /\ NoStorageCall(r)

C1_Witness ==
    \E r \in Reqs :
        /\ Denied(r)
        /\ pc[r] = "done"
        /\ req[r].body.Method = methodSecretsSet
        /\ Unmarshal(req[r].body.Payload).err = NoError

(***************************************************************************)
(* C2: a message from an allowed sender with a method other than            *)
(* secrets_list and secrets_set causes no outbound message and no storage   *)
(* call; it is only logged.                                                 *)
(***************************************************************************)
C2_UnknownMethodSilent ==
    \A r \in Reqs :
        (Allowed(r) /\ ~KnownMethod(r)) =>
            /\ pc[r] = "done"
            /\ Len(calls[r]) = 1
            /\ NoStorageCall(r)
            /\ lggr[r] = <<"handling gateway request", "unsupported method">>

C2_Witness ==
    \E r \in Reqs : Allowed(r) /\ ~KnownMethod(r) /\ pc[r] = "done"

(***************************************************************************)
(* C3: for a secrets_set message from an allowed sender whose payload does  *)
(* not decode, Put is never called and the response handed to the transport *)
(* has success=false and a non-empty error_message.                         *)
(***************************************************************************)
Undecodable(r) ==
    /\ Allowed(r)
    /\ req[r].body.Method = methodSecretsSet
    /\ Unmarshal(req[r].body.Payload).err # NoError

C3_BadPayloadAnswered ==
    \A r \in Reqs :
        Undecodable(r) =>
            /\ NoStorageCall(r)
            /\ \A i \in 1..Len(Sent(r)) :
                 LET json == JsonOf(Sent(r)[i])
                 IN  /\ json.success = FALSE
                     /\ "error_message" \in DOMAIN json
                     /\ json.error_message # ""

C3_Witness ==
    \E r \in Reqs :
        /\ Undecodable(r)
        /\ req[r].body.Payload = PayloadBadType
        /\ Len(Sent(r)) = 1

(***************************************************************************)
(* C4: for a secrets_set message from an allowed sender whose payload       *)
(* decodes, Put is called exactly once with key (sender, slot_id, version), *)
(* record {expiration, payload} and the request's signature as it came; if  *)
(* Put succeeds the response is exactly {success:true}.                     *)
(***************************************************************************)
Decodable(r) ==
    /\ Allowed(r)
    /\ req[r].body.Method = methodSecretsSet
    /\ Unmarshal(req[r].body.Payload).err = NoError

C4_PutPassesRequestThrough ==
    \A r \in Reqs :
        (Decodable(r) /\ pc[r] # "set") =>
            LET obj == req[r].body.Payload[2]
                put == CallsOf(r, "Put")[1]
            IN  /\ NumCalls(r, "Put") = 1
                /\ put.args[1].key.Address = HexToAddress(req[r].body.Sender)
                /\ put.args[1].key.SlotId = obj.slot_id[2]
                /\ put.args[1].key.Version = obj.version[2]
                /\ put.args[1].record.Expiration = obj.expiration[2]
                /\ put.args[1].record.Payload = obj.payload[2]
                /\ put.args[1].signature = obj.signature[2]
                /\ Len(SelectSeq(storageWrites, LAMBDA w : w.by = r)) = 1
                /\ (put.returned /\ put.err = NoError) =>
                       \A i \in 1..Len(Sent(r)) :
                           Sent(r)[i].Body.Payload = <<"object", [success |-> TRUE]>>

C4_Witness ==
    \E r \in Reqs :
        /\ Decodable(r)
        /\ StorageReturned(r, "Put")
        /\ CallsOf(r, "Put")[1].err = NoError
        /\ Len(Sent(r)) = 1

(***************************************************************************)
(* C5: for a secrets_list message from an allowed sender for which List     *)
(* succeeds with n rows, the response has success=true and exactly n rows   *)
(* in the backend's order, each with the slot id, version and expiration of *)
(* its snapshot row and nothing else.                                       *)
(***************************************************************************)
Listed(r) ==
    /\ Allowed(r)
    /\ req[r].body.Method = methodSecretsList
    /\ StorageReturned(r, "List")
    /\ CallsOf(r, "List")[1].err = NoError

C5_ListMirrorsSnapshot ==
    \A r \in Reqs :
        Listed(r) =>
            LET snapshot == CallsOf(r, "List")[1].val
            IN  \A i \in 1..Len(Sent(r)) :
                    LET json == JsonOf(Sent(r)[i])
                        rows == RowsOf(json)
                    IN  /\ json.success = TRUE
                        /\ "error_message" \notin DOMAIN json
                        /\ Len(rows) = Len(snapshot)
                        /\ \A k \in 1..Len(snapshot) :
                             rows[k] = [slot_id |-> snapshot[k].SlotId,
                                        version |-> snapshot[k].Version,
                                        expiration |-> snapshot[k].Expiration]

C5_Witness ==
    \E r \in Reqs :
        /\ Listed(r)
        /\ Len(CallsOf(r, "List")[1].val) = 2
        /\ Len(Sent(r)) = 1

(***************************************************************************)
(* C6: every outbound message has the message id, don id and method of the  *)
(* request that caused it, the node's own address as sender, and a          *)
(* signature by the node's key over that envelope.                          *)
(***************************************************************************)
C6_ResponseEnvelope ==
    \A r \in Reqs :
        \A i \in 1..Len(Sent(r)) :
            LET msg == Sent(r)[i]
            IN  /\ msg.Body.MessageId = req[r].body.MessageId
                /\ msg.Body.DonId = req[r].body.DonId
                /\ msg.Body.Method = req[r].body.Method
                /\ msg.Body.Sender = h.nodeAddress
                /\ VerifySignature(msg, h.signerKey)

C6_Witness ==
    \E r \in Reqs : Len(Sent(r)) = 1 /\ pc[r] = "done"

(***************************************************************************)
(* C7 as claimed: a request whose context was cancelled while the storage   *)
(* call was outstanding is never answered: no SendToGateway call and no     *)
(* signed response.                                                         *)
(***************************************************************************)
CanceledInStorage(r) ==
    ctx[r].canceled /\ ctx[r].during \in {"listWait", "putWait"}

SignedOk(r) ==
    \E i \in 1..Len(calls[r]) : calls[r][i].op = "Sign" /\ calls[r][i].err = NoError

C7_Claimed_CanceledNeverAnswered ==
    \A r \in Reqs :
        CanceledInStorage(r) => (NumCalls(r, "SendToGateway") = 0 /\ ~SignedOk(r))

(***************************************************************************)
(* C7 amended: a request whose context was cancelled while the storage call *)
(* was outstanding is still answered: once the storage call has returned,   *)
(* the handler signs a response that reports the call's result and, unless  *)
(* signing fails, makes one SendToGateway call with it.                     *)
(***************************************************************************)
StorageCallOf(r) ==
    IF req[r].body.Method = methodSecretsList
    THEN CallsOf(r, "List")[1]
    ELSE CallsOf(r, "Put")[1]

C7_CanceledStillAnswered ==
    \A r \in Reqs :
        (CanceledInStorage(r) /\ pc[r] = "done") =>
            /\ NumCalls(r, "Sign") = 1
            /\ SignedOk(r) =>
                 /\ Len(Sent(r)) = 1
                 /\ JsonOf(Sent(r)[1]).success = (StorageCallOf(r).err = NoError)

C7_Witness ==
    \E r \in Reqs :
        /\ CanceledInStorage(r)
        /\ pc[r] = "done"
        /\ StorageCallOf(r).err = ErrCtxCanceled
        /\ Len(Sent(r)) = 1

(***************************************************************************)
(* C8: every message from an allowed sender with method secrets_list or     *)
(* secrets_set ends with exactly one response handed to the transport,      *)
(* whatever decoding and the storage call gave, unless signing fails.       *)
(***************************************************************************)
C8_KnownMethodAnswered ==
    \A r \in Reqs :
        (Allowed(r) /\ KnownMethod(r))
            ~> (pc[r] = "done" /\ (SignFailed(r) \/ Len(Sent(r)) = 1))

C8_Witness ==
    \E r \in Reqs :
        /\ Allowed(r)
        /\ pc[r] = "done"
        /\ StorageReturned(r, "Put")
        /\ CallsOf(r, "Put")[1].err \in PutErrors
        /\ Len(Sent(r)) = 1

(***************************************************************************)
(* C9: over any interleaving of Start and Close calls the allowlist's Start *)
(* runs at most once and its Close runs at most once.                       *)
(***************************************************************************)
AllowlistRuns(fn) ==
    Cardinality({ i \in 1..Len(allowlistLog) : allowlistLog[i] = fn })

ReturnedCalls(call) ==
    { i \in 1..Len(lifecycleLog) : lifecycleLog[i].call = call }

C9_AllowlistOnce ==
    AllowlistRuns("Start") <= 1 /\ AllowlistRuns("Close") <= 1

C9_Witness ==
    /\ Cardinality(ReturnedCalls("Start")) >= 2
    /\ AllowlistRuns("Start") = 1
    /\ \E i \in ReturnedCalls("Start") : lifecycleLog[i].err = ErrAlreadyStarted

(***************************************************************************)
(* C10: Close on a handler that has not been started returns an error       *)
(* without invoking the allowlist, so the allowlist's Close is only ever    *)
(* invoked after its Start has been.                                        *)
(***************************************************************************)
C10_CloseOnlyAfterStart ==
    /\ \A i \in 1..Len(allowlistLog) :
         allowlistLog[i] = "Close" => \E j \in 1..(i - 1) : allowlistLog[j] = "Start"
    /\ (state = "Unstarted" => allowlistLog = <<>>)

C10_Witness ==
    /\ state = "Unstarted"
    /\ Len(lifecycleLog) >= 1
    /\ lifecycleLog[1] = [call |-> "Close", err |-> ErrCannotStop]
    /\ allowlistLog = <<>>

(***************************************************************************)
(* C11: when the storage call of an admitted request fails, the handler     *)
(* makes no second storage call and hands the transport a signed response   *)
(* with success=false, an error_message that contains the backend's error   *)
(* and no rows.                                                             *)
(***************************************************************************)
NumStorageCalls(r) == NumCalls(r, "List") + NumCalls(r, "Put")

StorageFailed(r) ==
    /\ Allowed(r)
    /\ KnownMethod(r)
    /\ NumStorageCalls(r) >= 1
    /\ StorageCallOf(r).returned
    /\ StorageCallOf(r).err # NoError

\* the message is some wording followed by the error's description
ContainsError(message, err) ==
    \E wording \in {"Failed to list secrets: ", "Failed to set secret: "} :
        message = wording \o err

C11_StorageFailureAnswered ==
    \A r \in Reqs :
        StorageFailed(r) =>
            /\ NumStorageCalls(r) = 1
            /\ Len(SelectSeq(storageWrites, LAMBDA w : w.by = r)) <= 1
            /\ (pc[r] = "done" /\ ~SignFailed(r)) => Len(Sent(r)) = 1
            /\ \A i \in 1..Len(Sent(r)) :
                 LET json == JsonOf(Sent(r)[i])
                 IN  /\ json.success = FALSE
                     /\ "error_message" \in DOMAIN json
                     /\ json.error_message # ""
                     /\ ContainsError(json.error_message, StorageCallOf(r).err)
                     /\ "rows" \notin DOMAIN json
                     /\ VerifySignature(Sent(r)[i], h.signerKey)

C11_Witness ==
    \E r \in Reqs :
        /\ StorageFailed(r)
        /\ req[r].body.Method = methodSecretsList
        /\ StorageCallOf(r).err \in ListErrors
        /\ Len(Sent(r)) = 1

(***************************************************************************)
(* C12: handling a message always ends: whatever the allowlist, decoding,   *)
(* the storage backend, signing and the transport answer, the invocation    *)
(* reaches its end, and it is never anywhere but in one of the handler's    *)
(* own steps (no error leaves HandleGatewayMessage).                        *)
(***************************************************************************)
HandlerSteps == {"idle", "admit", "list", "listWait", "set", "putWait", "send", "done"}

SendFailed(r) ==
    NumCalls(r, "SendToGateway") >= 1 /\ CallsOf(r, "SendToGateway")[1].err # NoError

C12_HandlingEnds ==
    /\ [](\A r \in Reqs : pc[r] \in HandlerSteps)
    /\ \A r \in Reqs : (pc[r] # "idle") ~> (pc[r] = "done")

C12_Witness ==
    \E r \in Reqs :
        /\ pc[r] = "done"
        /\ StorageFailed(r)
        /\ SendFailed(r)
        /\ lggr[r][Len(lggr[r])] = "failed to send response to gateway"

(***************************************************************************)
(* C13: at most one SendToGateway call is made per message: none when       *)
(* signing fails, and a failed SendToGateway is not made again.             *)
(***************************************************************************)
C13_OneSendAtMost ==
    \A r \in Reqs :
        /\ NumCalls(r, "SendToGateway") <= 1
        /\ NumCalls(r, "Sign") <= 1
        /\ SignFailed(r) => (NumCalls(r, "SendToGateway") = 0 /\ pc[r] = "done")
        /\ SendFailed(r) => pc[r] = "done"

C13_Witness ==
    \E r1 \in Reqs, r2 \in Reqs :
        /\ SignFailed(r1) /\ pc[r1] = "done"
        /\ SendFailed(r2) /\ pc[r2] = "done"
        /\ CallsOf(r2, "SendToGateway")[1].err = ErrTransport

(***************************************************************************)
(* C14: every storage call made for a message has the address of that       *)
(* message's sender as its owner, also while a message of another sender is *)
(* being handled.                                                           *)
(***************************************************************************)
OwnerOf(r) == HexToAddress(req[r].body.Sender)

C14_StorageCallsUnderOwnSender ==
    /\ \A r \in Reqs :
         /\ \A i \in 1..NumCalls(r, "List") : CallsOf(r, "List")[i].args[1] = OwnerOf(r)
         /\ \A i \in 1..NumCalls(r, "Put") :
              CallsOf(r, "Put")[i].args[1].key.Address = OwnerOf(r)
    /\ \A i \in 1..Len(storageWrites) :
         storageWrites[i].args.key.Address = OwnerOf(storageWrites[i].by)

C14_Witness ==
    \E r1 \in Reqs, r2 \in Reqs :
        /\ OwnerOf(r1) # OwnerOf(r2)
        /\ pc[r1] = "listWait"
        /\ pc[r2] = "putWait"
        /\ req[r1].body.Sender = <<"0", "x", "A", "1">>
        /\ CallsOf(r1, "List")[1].args[1][AddressNibbles] = 1
        /\ CallsOf(r1, "List")[1].args[1][AddressNibbles - 1] = 10

(***************************************************************************)
(* C15: when messages are handled concurrently, each response goes to the   *)
(* gateway its own request came from, carries its own request's message id  *)
(* and don id, and reports the result of its own request's storage call.    *)
(***************************************************************************)
ReportsOwnResult(r, json) ==
    IF NumStorageCalls(r) = 0
    THEN json.success = FALSE
    ELSE LET own == StorageCallOf(r)
         IN  /\ json.success = (own.err = NoError)
             /\ own.err # NoError => ContainsError(json.error_message, own.err)
             /\ (own.err = NoError /\ own.op = "List") =>
                    /\ Len(RowsOf(json)) = Len(own.val)
                    /\ \A k \in 1..Len(own.val) :
                         /\ RowsOf(json)[k].slot_id = own.val[k].SlotId
                         /\ RowsOf(json)[k].version = own.val[k].Version

C15_ResponsesNotMixedUp ==
    \A r \in Reqs :
        \A i \in 1..NumCalls(r, "SendToGateway") :
            LET send == CallsOf(r, "SendToGateway")[i]
                msg == send.args[4]
            IN  /\ send.args[3] = req[r].gatewayId
                /\ msg.Body.MessageId = req[r].body.MessageId
                /\ msg.Body.DonId = req[r].body.DonId
                /\ ReportsOwnResult(r, JsonOf(msg))

\* the second invocation made its Put after the first one's and was answered
\* while the first one's Put was still outstanding
C15_Witness ==
    \E r1 \in Reqs, r2 \in Reqs :
        /\ Len(storageWrites) = 2
        /\ storageWrites[1].by = r1
        /\ storageWrites[2].by = r2
        /\ pc[r1] = "putWait"
        /\ pc[r2] = "done"
        /\ StorageFailed(r2)
        /\ Len(Sent(r2)) = 1

(***************************************************************************)
(* C16: the core does not put the writes of one owner in any order: a       *)
(* secrets_set that decodes is never held back, whatever other write is     *)
(* outstanding, and its Put reaches the backend in the order the handler    *)
(* made it, whatever the versions; so of two concurrent writes of one slot  *)
(* either may come first.                                                   *)
(***************************************************************************)
WriteOf(r) ==
    LET obj == req[r].body.Payload[2]
    IN  [by |-> r,
         args |-> [key |-> [Address |-> OwnerOf(r), SlotId |-> obj.slot_id[2],
                            Version |-> obj.version[2]],
                   record |-> [Expiration |-> obj.expiration[2],
                               Payload |-> obj.payload[2]],
                   signature |-> obj.signature[2]]]

C16_WritesNotSerialized ==
    /\ [](\A r \in Reqs : pc[r] = "set" => ENABLED SetDecode(r))
    /\ [][\A r \in Reqs :
            (pc[r] = "set" /\ pc'[r] # "set") =>
                /\ pc'[r] = "putWait"
                /\ storageWrites' = Append(storageWrites, WriteOf(r))]_vars

\* the later version of a slot reached the backend before the earlier one, and
\* neither has been answered yet
C16_Witness ==
    /\ Len(storageWrites) = 2
    /\ storageWrites[1].by # storageWrites[2].by
    /\ storageWrites[1].args.key.Address = storageWrites[2].args.key.Address
    /\ storageWrites[1].args.key.SlotId = storageWrites[2].args.key.SlotId
    /\ storageWrites[1].args.key.Version > storageWrites[2].args.key.Version
    /\ \A r \in Reqs : pc[r] = "putWait"

(***************************************************************************)
(* C17: the handler is stateless between requests: no step of               *)
(* HandleGatewayMessage changes the handler's fields or its lifecycle       *)
(* state, and two messages with the same method, sender and payload that    *)
(* get the same answers from the allowlist and the storage backend get the  *)
(* same storage call and the same response, whichever was handled first.    *)
(***************************************************************************)
SameStorageResult(r1, r2) ==
    /\ NumStorageCalls(r1) = NumStorageCalls(r2)
    /\ NumStorageCalls(r1) = 1 =>
         /\ StorageCallOf(r1).returned = StorageCallOf(r2).returned
         /\ StorageCallOf(r1).err = StorageCallOf(r2).err
         /\ StorageCallOf(r1).val = StorageCallOf(r2).val

SameInputs(r1, r2) ==
    /\ req[r1].body.Method = req[r2].body.Method
    /\ req[r1].body.Sender = req[r2].body.Sender
    /\ req[r1].body.Payload = req[r2].body.Payload
    /\ Consulted(r1) /\ Consulted(r2)
    /\ calls[r1][1].val = calls[r2][1].val
    /\ SameStorageResult(r1, r2)

Answering(r) == pc[r] \in {"send", "done"}

C17_Stateless ==
    /\ [][pc' # pc => (h' = h /\ UNCHANGED lifecycleVars)]_vars
    /\ [](\A r1 \in Reqs, r2 \in Reqs :
            (SameInputs(r1, r2) /\ Answering(r1) /\ Answering(r2)) =>
                /\ response[r1] = response[r2]
                /\ NumStorageCalls(r1) = 1 =>
                     StorageCallOf(r1).args = StorageCallOf(r2).args)

C17_Witness ==
    \E r1 \in Reqs, r2 \in Reqs :
        /\ r1 # r2
        /\ req[r1].body.Method = methodSecretsList
        /\ NumStorageCalls(r1) = 1
        /\ SameInputs(r1, r2)
        /\ Len(StorageCallOf(r1).val) = 2
        /\ pc[r1] = "done" /\ Len(Sent(r1)) = 1
        /\ pc[r2] = "send"
        /\ h = [NewFunctionsConnectorHandler EXCEPT !.connector = TheConnector]

(***************************************************************************)
(* C18: within one invocation the allowlist is consulted exactly once and   *)
(* before any storage call, at most one storage call is made, and Sign and  *)
(* SendToGateway come only after that storage call has returned, or after a *)
(* secrets_set payload failed to decode.                                    *)
(***************************************************************************)
IsStorageCall(c) == c.op \in {"List", "Put"}

C18_CallOrder ==
    \A r \in Reqs :
        /\ pc[r] \in {"idle", "admit"} => calls[r] = <<>>
        /\ pc[r] \notin {"idle", "admit"} => (Consulted(r) /\ NumCalls(r, "Allow") = 1)
        /\ NumStorageCalls(r) <= 1
        /\ \A i \in 1..Len(calls[r]) :
             /\ IsStorageCall(calls[r][i]) => (i = 2 /\ Allowed(r))
             /\ calls[r][i].op \in {"Sign", "SendToGateway"} =>
                  \/ \E j \in 1..(i - 1) :
                        IsStorageCall(calls[r][j]) /\ calls[r][j].returned
                  \/ /\ NumStorageCalls(r) = 0
                     /\ Undecodable(r)

C18_Witness ==
    \E r \in Reqs :
        /\ pc[r] = "done"
        /\ Len(calls[r]) = 4
        /\ [i \in 1..4 |-> calls[r][i].op] = <<"Allow", "Put", "Sign", "SendToGateway">>

(***************************************************************************)
(* C19: secrets_list does not decode the request payload: two secrets_list  *)
(* messages of allowed senders for which List gives the same result get the *)
(* same response payload, whether their own payloads are empty, malformed   *)
(* or well-formed.                                                          *)
(***************************************************************************)
ListAnswered(r) ==
    /\ Allowed(r)
    /\ req[r].body.Method = methodSecretsList
    /\ StorageReturned(r, "List")
    /\ Len(Sent(r)) = 1

SameListResult(r1, r2) ==
    /\ CallsOf(r1, "List")[1].err = CallsOf(r2, "List")[1].err
    /\ CallsOf(r1, "List")[1].val = CallsOf(r2, "List")[1].val

C19_ListIgnoresPayload ==
    \A r1 \in Reqs, r2 \in Reqs :
        (ListAnswered(r1) /\ ListAnswered(r2) /\ SameListResult(r1, r2)) =>
            Sent(r1)[1].Body.Payload = Sent(r2)[1].Body.Payload

C19_Witness ==
    \E r1 \in Reqs, r2 \in Reqs :
        /\ ListAnswered(r1) /\ ListAnswered(r2) /\ SameListResult(r1, r2)
        /\ req[r1].body.Payload = PayloadBadType
        /\ req[r2].body.Payload = PayloadFull
        /\ JsonOf(Sent(r1)[1]).success = TRUE
        /\ Len(RowsOf(JsonOf(Sent(r1)[1]))) = 2

(***************************************************************************)
(* C20: HandleGatewayMessage does not look at the lifecycle state: in every *)
(* lifecycle state, before Start and after Close included, a message is     *)
(* taken in, each step of its handling can be taken, and a message of an    *)
(* allowed sender with a known method ends with its response signed and     *)
(* reporting its storage result.                                            *)
(***************************************************************************)
C20_LifecycleNotConsulted ==
    \A r \in Reqs :
        /\ (pc[r] = "idle" /\ h.connector # Nil) => ENABLED Receive(r)
        /\ pc[r] \notin {"idle", "done"} => ENABLED HandleGatewayMessage(r)
        /\ (Allowed(r) /\ KnownMethod(r)) =>
             /\ pc[r] \in {"list", "listWait", "set", "putWait", "send", "done"}
             /\ pc[r] = "done" =>
                  /\ NumCalls(r, "Sign") = 1
                  /\ SignedOk(r) => Len(Sent(r)) = 1
                  /\ \A i \in 1..Len(Sent(r)) : ReportsOwnResult(r, JsonOf(Sent(r)[i]))

\* a message handled from arrival to response before any Start
C20_Witness ==
    \E r \in Reqs :
        /\ state = "Unstarted"
        /\ lifecycleCalls = 0
        /\ pc[r] = "done"
        /\ Allowed(r)
        /\ Len(Sent(r)) = 1
        /\ JsonOf(Sent(r)[1]).success = TRUE

====
